---- MODULE Spec2Model ----
(***************************************************************************)
(* Model of src/app.py: the XLSX cleaning pipeline                          *)
(* (limpiar_y_procesar_xlsx) and the "# SET" allocator of the main script.  *)
(*                                                                         *)
(* A text value is a sequence of one-character strings.  Two characters    *)
(* outside ASCII are named by tokens: "SUP2" is U+00B2 (superscript two)   *)
(* and "AR3" is U+0663 (Arabic-Indic digit three).                         *)
(* A cell is a record [k, i, s]: k is its kind ("null", "int", "float",    *)
(* "bool", "str"), i its number (a float cell holds the value i.0, a bool  *)
(* cell 0 or 1) and s its text.                                            *)
(***************************************************************************)
EXTENDS Integers, Sequences, FiniteSets, TLC

\* ---------------------------------------------------------------- bounds
\* Rows of the grids that vary the group and the measurement columns.
MaxRows == 3
\* Rows of the grids that vary the "# SET" column over the pool of codes.
MaxIds == 2

\* ------------------------------------------------------------- the schema
NUEVAS_CABECERAS ==
  << "Sucursal", "Area", "Distrito", "# SET", "Antifraude", "Convencional",
     "Preensamblado", "Subterraneo", "Total", "Total clientes BT",
     "Potencia total", "Cantidad trafos", "Codigo ET", "Codigo distribuidor",
     "Descripciones", "Domicilio", "Estado topologia", "Tipo SET", "Subtipo SET",
     "Urbana/Rural", "X", "Y", "Lat/Long", "Energia anual total",
     "Energia anual comercial", "Energia anual residencial",
     "Energia anual Industrial", "Energia anual otros" >>

cols_ffill == {"Sucursal", "Area", "Distrito"}

\* The columns the source names as text columns that keep their nulls.
FreeTextCols == {"Descripciones", "Domicilio"}

NumericDtypes == {"Int8", "Int16", "Int32", "Int64", "Float32", "Float64"}

\* ------------------------------------------------------------------ cells
Null == [k |-> "null", i |-> 0, s |-> << >>]

IntCell(n) == [k |-> "int", i |-> n, s |-> << >>]

FloatCell(n) == [k |-> "float", i |-> n, s |-> << >>]

BoolCell(b) == [k |-> "bool", i |-> b, s |-> << >>]

StrCell(t) == [k |-> "str", i |-> 0, s |-> t]

IsNull(c) == c.k = "null"

\* ------------------------------------------------------------- characters
AsciiDigits == {"0", "1", "2", "3", "4", "5", "6", "7", "8", "9"}

DigitSeq == << "0", "1", "2", "3", "4", "5", "6", "7", "8", "9" >>

\* ord(c)
CodePoint(c) ==
  CASE c = "." -> 46
    [] c = "0" -> 48 [] c = "1" -> 49 [] c = "2" -> 50 [] c = "3" -> 51
    [] c = "4" -> 52 [] c = "5" -> 53 [] c = "6" -> 54 [] c = "7" -> 55
    [] c = "8" -> 56 [] c = "9" -> 57
    [] c = "A" -> 65 [] c = "B" -> 66
    [] c = "a" -> 97 [] c = "b" -> 98 [] c = "c" -> 99 [] c = "e" -> 101
    [] c = "f" -> 102 [] c = "l" -> 108 [] c = "r" -> 114 [] c = "s" -> 115
    [] c = "t" -> 116 [] c = "u" -> 117
    [] c = "SUP2" -> 178
    [] c = "AR3" -> 1635

\* str.isdigit on one character: Numeric_Type Digit or Decimal.
IsDigitChar(c) == c \in AsciiDigits \cup {"SUP2", "AR3"}

\* The characters int() accepts as a digit: Numeric_Type Decimal only.
IsDecimalChar(c) == c \in AsciiDigits \cup {"AR3"}

DigitVal(c) ==
  IF c = "AR3" THEN 3 ELSE CodePoint(c) - 48

\* s.isdigit(): false on the empty string.
isdigit(s) == Len(s) > 0 /\ \A j \in 1..Len(s) : IsDigitChar(s[j])

\* int(s) raises ValueError unless every character is a decimal digit.
IntRaises(s) == Len(s) = 0 \/ \E j \in 1..Len(s) : ~IsDecimalChar(s[j])

RECURSIVE int(_)
int(s) ==
  IF Len(s) = 0 THEN 0
  ELSE int(SubSeq(s, 1, Len(s) - 1)) * 10 + DigitVal(s[Len(s)])

\* str(n) of a non-negative integer.
RECURSIVE IntToStr(_)
IntToStr(n) ==
  IF n < 10 THEN << DigitSeq[n + 1] >>
  ELSE IntToStr(n \div 10) \o << DigitSeq[(n % 10) + 1] >>

RECURSIVE ZeroPad(_, _)
ZeroPad(s, w) == IF Len(s) >= w THEN s ELSE ZeroPad(<< "0" >> \o s, w)

\* f"{n:08d}"
Format08d(n) == ZeroPad(IntToStr(n), 8)

\* ------------------------------------------------------- column operations
\* A column is [name, dtype, vals]; a table is a sequence of columns.

\* A fill that copies the first row instead of the nearest preceding value.
ForwardFill_FromFirst(v) ==
  [r \in 1..Len(v) |-> IF IsNull(v[r]) THEN v[1] ELSE v[r]]

\* pl.col(c).fill_null(strategy="forward") on the values of one column.
ForwardFill(v) ==
  LET f[r \in 0..Len(v)] ==
        IF r = 0 THEN Null
        ELSE IF IsNull(v[r]) THEN f[r - 1] ELSE v[r]
  IN  [r \in 1..Len(v) |-> f[r]]

\* One pass of "for col in cols_ffill: with_columns(fill_null(forward))".
FillForwardCols(df) ==
  [j \in 1..Len(df) |->
     IF df[j].name \in cols_ffill
     THEN [df[j] EXCEPT !.vals = ForwardFill(df[j].vals)]
     ELSE df[j]]

\* The dtype test with the floating-point types left out.
IsNumericDtype_IntOnly(d) == d \in {"Int8", "Int16", "Int32", "Int64"}

\* dtype in {pl.Int8, ..., pl.Float64}
IsNumericDtype(d) == d \in NumericDtypes

\* The literal 0 of fill_null(0), in the column's own type.
ZeroOf(d) == IF d \in {"Float32", "Float64"} THEN FloatCell(0) ELSE IntCell(0)

\* pl.col(c).fill_null(0) on one column.
FillNullZero(col) ==
  [col EXCEPT !.vals =
     [r \in 1..Len(col.vals) |->
        IF IsNull(col.vals[r]) THEN ZeroOf(col.dtype) ELSE col.vals[r]]]

\* The text polars gives one cell when its column is cast to pl.String.
CellToStr(c) ==
  CASE c.k = "null"  -> Null
    [] c.k = "str"   -> c
    [] c.k = "int"   -> StrCell(IntToStr(c.i))
    [] c.k = "float" -> StrCell(IntToStr(c.i) \o << ".", "0" >>)
    [] c.k = "bool"  -> StrCell(IF c.i = 1 THEN << "t", "r", "u", "e" >>
                                ELSE << "f", "a", "l", "s", "e" >>)

\* pl.col(c).cast(pl.String) on one column.
CastString(col) ==
  [col EXCEPT !.dtype = "String",
              !.vals = [r \in 1..Len(col.vals) |-> CellToStr(col.vals[r])]]

\* The column count check accepting wider grids.
SchemaOk_AtLeast(n) == n >= Len(NUEVAS_CABECERAS)

\* df_pl.shape[1] == len(NUEVAS_CABECERAS)
SchemaOk(n) == n = Len(NUEVAS_CABECERAS)

\* str(i) for i in range(len(NUEVAS_CABECERAS))
old_col_names == [j \in 1..Len(NUEVAS_CABECERAS) |-> ToString(j - 1)]

\* df_pl.rename(column_mapping): positional names become the schema's names.
Renamed(df) ==
  [j \in 1..Len(df) |->
     IF \E q \in 1..Len(old_col_names) : old_col_names[q] = df[j].name
     THEN [df[j] EXCEPT !.name =
             NUEVAS_CABECERAS[CHOOSE q \in 1..Len(old_col_names) :
                                 old_col_names[q] = df[j].name]]
     ELSE df[j]]

\* rename raises when a key of the mapping names no column of the table.
RenameRaises(df) ==
  \E q \in 1..Len(old_col_names) :
     \A j \in 1..Len(df) : df[j].name # old_col_names[q]

\* df.is_empty(): the table has no row.
is_empty(df) == Len(df) = 0 \/ Len(df[1].vals) = 0

\* The column of the table named c.
Column(df, c) == df[CHOOSE j \in 1..Len(df) : df[j].name = c]

HasColumn(df, c) == \E j \in 1..Len(df) : df[j].name = c

\* ---------------------------------------------------------- the allocator
\* isinstance(s, str) and len(s) == 8 and s.isdigit()
IsValidSet(s) == Len(s) = 8 /\ isdigit(s)

\* The discriminator read one place to the left: s[-5] < '5'.
IsUrbano_Index3(s) == CodePoint(s[Len(s) - 4]) < CodePoint("5")

\* s[-4] < '5'
IsUrbano(s) == CodePoint(s[Len(s) - 3]) < CodePoint("5")

\* s[-4] == '5'
IsRural(s) == s[Len(s) - 3] = "5"

Max(S) == CHOOSE m \in S : \A n \in S : n <= m

\* max(sets) + 1 if sets else floor
NextFree(sets, floor) == IF sets # {} THEN Max(sets) + 1 ELSE floor

URBANO_FLOOR == 10000000

RURAL_FLOOR == 50000000

\* ------------------------------------------------------------- the inputs
\* What pd.read_excel and pl.from_pandas hand to the pipeline: a grid of
\* columns named "0", "1", ... with an inferred dtype each.  Column 3 is read
\* with dtype str, so it is always a text column.  An Int64 column has no
\* null (pandas has none for int64).

\* Text values of the "# SET" column.
SetPool ==
  { << "1", "0", "0", "0", "0", "0", "0", "1" >>,
    << "1", "0", "0", "0", "0", "0", "0", "2" >>,
    << "a", "b", "c" >>,
    << "1", "0", "0", "0", "0", "0", "0" >>,
    << "5", "0", "0", "0", "0", "0", "0", "9" >>,
    << "1", "0", "0", "5", "0", "0", "0", "0" >>,
    << "1", "0", "0", "4", "0", "0", "0", "0" >>,
    << "1", "0", "0", "0", "4", "9", "9", "9" >>,
    << "1", "0", "0", "0", "5", "0", "0", "0" >>,
    << "5", "0", "0", "0", "0", "0", "0", "0" >>,
    << "1", "0", "0", "5", "5", "9", "9", "9" >>,
    << "1", "0", "0", "5", "6", "0", "0", "0" >>,
    << "0", "0", "0", "0", "0", "0", "0", "7" >>,
    << "1", "0", "0", "0", "0", "0", "0", "SUP2" >>,
    << "1", "0", "0", "0", "0", "0", "0", "AR3" >>,
    << "1", "0", "0", "0", "SUP2", "0", "0", "0" >> }

\* The identifier values of the specification's worked example.
ExampleSets == << StrCell(<< "1", "0", "0", "0", "0", "0", "0", "1" >>), StrCell(<< "1", "0", "0", "0", "0", "0", "0", "2" >>), StrCell(<< "a", "b", "c" >>), StrCell(<< "1", "0", "0", "0", "0", "0", "0" >>), StrCell(<< "5", "0", "0", "0", "0", "0", "0", "9" >>), Null >>

V1(d) ==
  CASE d = "String"  -> StrCell(<< "A" >>)
    [] d = "Int64"   -> IntCell(0)
    [] d = "Float64" -> FloatCell(0)
    [] d = "Boolean" -> BoolCell(1)

V2(d) ==
  CASE d = "String"  -> StrCell(<< "B" >>)
    [] d = "Int64"   -> IntCell(7)
    [] d = "Float64" -> FloatCell(7)
    [] d = "Boolean" -> BoolCell(0)

\* The columns of n cells over the given cells, of dtype d.
ColumnsOf(n, d, cells) == {[dtype |-> d, vals |-> f] : f \in [1..n -> cells]}

GroupColumns(n) ==
  UNION {ColumnsOf(n, d, {Null, V1(d), V2(d)}) : d \in {"String", "Float64"}}

OtherColumns(n) ==
  UNION {ColumnsOf(n, d, {Null, V2(d)}) : d \in {"String", "Float64", "Boolean"}}
  \cup ColumnsOf(n, "Int64", {V1("Int64"), V2("Int64")})

IdColumns(n) ==
  ColumnsOf(n, "String", {Null} \cup {StrCell(t) : t \in SetPool})

DefaultGroup(n) ==
  [dtype |-> "String",
   vals |-> [r \in 1..n |-> IF r = 1 THEN V1("String") ELSE Null]]

DefaultOther(n) ==
  [dtype |-> "Float64",
   vals |-> [r \in 1..n |-> IF r % 2 = 1 THEN V2("Float64") ELSE Null]]

DefaultText(n) ==
  [dtype |-> "String",
   vals |-> [r \in 1..n |-> IF r = 1 THEN V2("String") ELSE Null]]

DefaultIds(n) ==
  [dtype |-> "String",
   vals |-> [r \in 1..n |-> StrCell(Format08d(URBANO_FLOOR + r))]]

Reverse(v) == [r \in 1..Len(v) |-> v[Len(v) + 1 - r]]

\* The grid of ncols columns: the group columns from g (Area reversed), the
\* "# SET" column idc, the even positions after it x, the odd ones text.
MkGrid(ncols, g, x, idc) ==
  [j \in 1..ncols |->
     LET c == CASE j \in {1, 3} -> g
                [] j = 2 -> [g EXCEPT !.vals = Reverse(g.vals)]
                [] j = 4 -> idc
                [] j > 4 /\ j % 2 = 1 -> x
                [] OTHER -> DefaultText(Len(g.vals))
     IN  [name |-> ToString(j - 1), dtype |-> c.dtype, vals |-> c.vals]]

ColumnCounts == {Len(NUEVAS_CABECERAS) - 1, Len(NUEVAS_CABECERAS),
                 Len(NUEVAS_CABECERAS) + 1}

FillGrids ==
  UNION {{MkGrid(nc, g, x, DefaultIds(n)) :
            nc \in ColumnCounts, g \in GroupColumns(n), x \in OtherColumns(n)} :
         n \in 1..MaxRows}

IdGrids ==
  UNION {{MkGrid(nc, DefaultGroup(n), DefaultOther(n), idc) :
            nc \in ColumnCounts, idc \in IdColumns(n)} : n \in 1..MaxIds}
  \cup {MkGrid(Len(NUEVAS_CABECERAS), DefaultGroup(Len(ExampleSets)),
               DefaultOther(Len(ExampleSets)),
               [dtype |-> "String", vals |-> ExampleSets])}

\* An upload is a readable workbook holding a grid, or bytes that
\* pd.read_excel cannot read.
Uploads ==
  {[ok |-> TRUE, grid |-> gr] : gr \in FillGrids \cup IdGrids}
  \cup {[ok |-> FALSE, grid |-> << >>]}

\* --------------------------------------------------------------- the state
VARIABLES
  uploaded_file,     \* the upload handed to limpiar_y_procesar_xlsx
  pc,                \* the position of the script run
  df_pl,             \* the imported grid
  df_final,          \* the table being cleaned
  numerical_cols,    \* names of the columns filled with 0
  string_like_cols,  \* names of the columns cast to String
  error,             \* the message of st.error, << >> when none was shown
  df_procesado,      \* the table the pipeline returned
  set_values,        \* distinct non-null values of "# SET"
  valid_sets,        \* the values kept as 8-digit codes
  urbano_sets,       \* the integers of the urban codes
  rural_sets,        \* the integers of the rural codes
  next_urbano,       \* 0 until computed
  next_rural,        \* 0 until computed
  set_urbano,        \* the urban code shown, << >> until formatted
  set_rural          \* the rural code shown, << >> until formatted

tableVars == << df_pl, df_final, numerical_cols, string_like_cols, df_procesado >>

allocVars == << set_values, valid_sets, urbano_sets, rural_sets,
                next_urbano, next_rural, set_urbano, set_rural >>

vars == << uploaded_file, pc, error, tableVars, allocVars >>

Init ==
  /\ uploaded_file \in Uploads
  /\ pc = "read"
  /\ df_pl = << >>
  /\ df_final = << >>
  /\ numerical_cols = {}
  /\ string_like_cols = {}
  /\ error = << >>
  /\ df_procesado = << >>
  /\ set_values = {}
  /\ valid_sets = {}
  /\ urbano_sets = {}
  /\ rural_sets = {}
  /\ next_urbano = 0
  /\ next_rural = 0
  /\ set_urbano = << >>
  /\ set_rural = << >>

\* ------------------------------------------------ limpiar_y_procesar_xlsx
\* pd.read_excel and pl.from_pandas; a workbook that cannot be read makes the
\* function return an empty DataFrame.
ReadExcel ==
  /\ pc = "read"
  /\ IF uploaded_file.ok
     THEN /\ df_pl' = uploaded_file.grid
          /\ pc' = "validate"
          /\ UNCHANGED << error, df_procesado >>
     ELSE /\ error' = << "read" >>
          /\ df_procesado' = << >>
          /\ pc' = "check"
          /\ UNCHANGED df_pl
  /\ UNCHANGED << uploaded_file, df_final, numerical_cols, string_like_cols,
                  allocVars >>

\* The column count check: st.error with both counts, then st.stop(), which
\* ends the script run.
Validate ==
  /\ pc = "validate"
  /\ IF SchemaOk(Len(df_pl))
     THEN /\ pc' = "rename"
          /\ UNCHANGED error
     ELSE /\ error' = << "format", Len(df_pl), Len(NUEVAS_CABECERAS) >>
          /\ pc' = "stopped"
  /\ UNCHANGED << uploaded_file, tableVars, allocVars >>

Rename ==
  /\ pc = "rename"
  /\ IF RenameRaises(df_pl)
     THEN /\ error' = << "unexpected" >>
          /\ pc' = "failed"
          /\ UNCHANGED df_final
     ELSE /\ df_final' = Renamed(df_pl)
          /\ pc' = "ffill"
          /\ UNCHANGED error
  /\ UNCHANGED << uploaded_file, df_pl, numerical_cols, string_like_cols,
                  df_procesado, allocVars >>

\* First forward fill of the group columns.
FillForward ==
  /\ pc = "ffill"
  /\ df_final' = FillForwardCols(df_final)
  /\ pc' = "classify"
  /\ UNCHANGED << uploaded_file, error, df_pl, numerical_cols,
                  string_like_cols, df_procesado, allocVars >>

\* numerical_cols and string_like_cols, from the schema of df_final.
Classify ==
  /\ pc = "classify"
  /\ numerical_cols' =
       {df_final[j].name : j \in {q \in 1..Len(df_final) :
           IsNumericDtype(df_final[q].dtype) /\ df_final[q].name \notin cols_ffill}}
  /\ string_like_cols' =
       {df_final[j].name : j \in {q \in 1..Len(df_final) :
           ~IsNumericDtype(df_final[q].dtype) /\ df_final[q].name \notin cols_ffill}}
  /\ pc' = "zerofill"
  /\ UNCHANGED << uploaded_file, error, df_pl, df_final, df_procesado, allocVars >>

\* fill_null(0) on every column of numerical_cols.
ZeroFill ==
  /\ pc = "zerofill"
  /\ df_final' = [j \in 1..Len(df_final) |->
                    IF df_final[j].name \in numerical_cols
                    THEN FillNullZero(df_final[j]) ELSE df_final[j]]
  /\ pc' = "cast"
  /\ UNCHANGED << uploaded_file, error, df_pl, numerical_cols,
                  string_like_cols, df_procesado, allocVars >>

\* cast(pl.String) on every column of string_like_cols.
CastStringLike ==
  /\ pc = "cast"
  /\ df_final' = [j \in 1..Len(df_final) |->
                    IF df_final[j].name \in string_like_cols
                    THEN CastString(df_final[j]) ELSE df_final[j]]
  /\ pc' = "castset"
  /\ UNCHANGED << uploaded_file, error, df_pl, numerical_cols,
                  string_like_cols, df_procesado, allocVars >>

\* cast(pl.String) on "# SET".
CastSet ==
  /\ pc = "castset"
  /\ IF HasColumn(df_final, "# SET")
     THEN /\ df_final' = [j \in 1..Len(df_final) |->
                            IF df_final[j].name = "# SET"
                            THEN CastString(df_final[j]) ELSE df_final[j]]
          /\ pc' = "ffill2"
          /\ UNCHANGED error
     ELSE /\ error' = << "unexpected" >>
          /\ pc' = "failed"
          /\ UNCHANGED df_final
  /\ UNCHANGED << uploaded_file, df_pl, numerical_cols, string_like_cols,
                  df_procesado, allocVars >>

\* Second forward fill of the group columns, then return df_final.
FillForwardAgain ==
  /\ pc = "ffill2"
  /\ df_final' = FillForwardCols(df_final)
  /\ df_procesado' = df_final'
  /\ pc' = "check"
  /\ UNCHANGED << uploaded_file, error, df_pl, numerical_cols,
                  string_like_cols, allocVars >>

\* ------------------------------------------------------------- main script
\* if not df_procesado.is_empty(): set_values and valid_sets.
CollectSets ==
  /\ pc = "check"
  /\ IF is_empty(df_procesado)
     THEN /\ pc' = "done"
          /\ UNCHANGED << set_values, valid_sets >>
     ELSE /\ set_values' =
               LET v == Column(df_procesado, "# SET").vals
               IN  {v[r].s : r \in {q \in 1..Len(v) : ~IsNull(v[q])}}
          /\ valid_sets' = {t \in set_values' : IsValidSet(t)}
          /\ pc' = "urbano"
  /\ UNCHANGED << uploaded_file, error, tableVars, urbano_sets, rural_sets,
                  next_urbano, next_rural, set_urbano, set_rural >>

\* urbano_sets and next_urbano; a ValueError of int() reaches the handler of
\* the script, which shows it and ends the run.
Urbano ==
  /\ pc = "urbano"
  /\ IF \E t \in valid_sets : IsUrbano(t) /\ IntRaises(t)
     THEN /\ error' = << "unexpected" >>
          /\ pc' = "failed"
          /\ UNCHANGED << urbano_sets, next_urbano >>
     ELSE /\ urbano_sets' = {int(t) : t \in {u \in valid_sets : IsUrbano(u)}}
          /\ next_urbano' = NextFree(urbano_sets', URBANO_FLOOR)
          /\ pc' = "rural"
          /\ UNCHANGED error
  /\ UNCHANGED << uploaded_file, tableVars, set_values, valid_sets, rural_sets,
                  next_rural, set_urbano, set_rural >>

Rural ==
  /\ pc = "rural"
  /\ IF \E t \in valid_sets : IsRural(t) /\ IntRaises(t)
     THEN /\ error' = << "unexpected" >>
          /\ pc' = "failed"
          /\ UNCHANGED << rural_sets, next_rural >>
     ELSE /\ rural_sets' = {int(t) : t \in {u \in valid_sets : IsRural(u)}}
          /\ next_rural' = NextFree(rural_sets', RURAL_FLOOR)
          /\ pc' = "format"
          /\ UNCHANGED error
  /\ UNCHANGED << uploaded_file, tableVars, set_values, valid_sets, urbano_sets,
                  next_urbano, set_urbano, set_rural >>

\* set_urbano and set_rural, the two codes handed to the page.
FormatSets ==
  /\ pc = "format"
  /\ set_urbano' = Format08d(next_urbano)
  /\ set_rural' = Format08d(next_rural)
  /\ pc' = "done"
  /\ UNCHANGED << uploaded_file, error, tableVars, set_values, valid_sets,
                  urbano_sets, rural_sets, next_urbano, next_rural >>

Next ==
  \/ ReadExcel
  \/ Validate
  \/ Rename
  \/ FillForward
  \/ Classify
  \/ ZeroFill
  \/ CastStringLike
  \/ CastSet
  \/ FillForwardAgain
  \/ CollectSets
  \/ Urbano
  \/ Rural
  \/ FormatSets

Spec == Init /\ [][Next]_vars

\* ------------------------------------------------------------ the claims
\* The position of a schema name.
Pos(c) == CHOOSE j \in 1..Len(NUEVAS_CABECERAS) : NUEVAS_CABECERAS[j] = c

\* The values of column c in the imported grid and in the returned table.
RawVals(c) == uploaded_file.grid[Pos(c)].vals

RawDtype(c) == uploaded_file.grid[Pos(c)].dtype

OutVals(c) == Column(df_procesado, c).vals

\* The pipeline returned a table.
Returned == df_procesado # << >>

\* The distinct non-null values of the returned "# SET" column.
CleanedSets ==
  {OutVals("# SET")[r].s :
     r \in {q \in 1..Len(OutVals("# SET")) : ~IsNull(OutVals("# SET")[q])}}

\* A valid code as the specification words it: 8 characters, all of '0'..'9'.
DecimalCode(t) == Len(t) = 8 /\ \A j \in 1..8 : t[j] \in AsciiDigits

UrbanDigit(t) == t[5] \in {"0", "1", "2", "3", "4"}

RuralDigit(t) == t[5] = "5"

NextOf(S, floor) == IF S = {} THEN floor ELSE Max(S) + 1

\* C1: for every identifier column, once the run that returned a table has
\* ended, the allocator kept exactly the 8-character all-decimal-digit values,
\* put in Urban those with '0'..'4' at index 4 and in Rural those with '5'
\* there, and produced for each zone the maximum plus one or the floor
\* (10000000, 50000000), as an 8-digit string.
C1_AllocatorContract ==
  (Returned /\ pc \in {"done", "failed"}) =>
     LET valid == {t \in CleanedSets : DecimalCode(t)}
         U == {int(t) : t \in {u \in valid : UrbanDigit(u)}}
         R == {int(t) : t \in {u \in valid : RuralDigit(u)}}
     IN  /\ pc = "done"
         /\ valid_sets = valid
         /\ urbano_sets = U
         /\ rural_sets = R
         /\ set_urbano = Format08d(NextOf(U, 10000000))
         /\ set_rural = Format08d(NextOf(R, 50000000))

\* C2: on the identifier values "10000001", "10000002", "abc", "1000000",
\* "50000009", absent, the run ends with the Urban maximum 10000002, next
\* Urban "10000003", the Rural maximum 50000009 and next Rural "50000010".
C2_WorkedExample ==
  (uploaded_file.ok /\ RawVals("# SET") = ExampleSets) =>
     /\ pc \notin {"failed", "stopped"}
     /\ pc = "done" =>
          /\ Max(urbano_sets) = 10000002
          /\ set_urbano = << "1", "0", "0", "0", "0", "0", "0", "3" >>
          /\ rural_sets # {}
          /\ Max(rural_sets) = 50000009
          /\ set_rural = << "5", "0", "0", "0", "0", "0", "1", "0" >>

\* C3 as stated: once both partitions are computed, "10050000" counts among
\* the Rural codes and not among the Urban ones, and "10040000" among the
\* Urban codes and not among the Rural ones.
C3_Original ==
  (pc \in {"format", "done"} /\ Returned) =>
     /\ << "1", "0", "0", "5", "0", "0", "0", "0" >> \in set_values =>
          (10050000 \in rural_sets /\ 10050000 \notin urbano_sets)
     /\ << "1", "0", "0", "4", "0", "0", "0", "0" >> \in set_values =>
          (10040000 \in urbano_sets /\ 10040000 \notin rural_sets)

\* C3 amended: "10050000" and "10040000" both have '0' at index 4, and once
\* both partitions are computed each counts among the Urban codes and not
\* among the Rural ones.
C3_BothUrban ==
  (pc \in {"format", "done"} /\ Returned) =>
     /\ << "1", "0", "0", "5", "0", "0", "0", "0" >>[5] = "0" /\ << "1", "0", "0", "4", "0", "0", "0", "0" >>[5] = "0"
     /\ << "1", "0", "0", "5", "0", "0", "0", "0" >> \in set_values =>
          (10050000 \in urbano_sets /\ 10050000 \notin rural_sets)
     /\ << "1", "0", "0", "4", "0", "0", "0", "0" >> \in set_values =>
          (10040000 \in urbano_sets /\ 10040000 \notin rural_sets)

C3_Witness ==
  /\ pc = "done"
  /\ << "1", "0", "0", "5", "0", "0", "0", "0" >> \in set_values
  /\ << "1", "0", "0", "4", "0", "0", "0", "0" >> \in set_values
  /\ urbano_sets = {10040000, 10050000}
  /\ rural_sets = {}
  /\ set_urbano = << "1", "0", "0", "5", "0", "0", "0", "1" >>

\* C4: for every identifier column, neither derived code occurs among the
\* values of the cleaned identifier column.
C4_DerivedUnused ==
  (pc = "done" /\ Returned) =>
     /\ set_urbano \notin CleanedSets
     /\ set_rural \notin CleanedSets

\* C5: a grid whose column count is not 28 gets no further than validation:
\* the run stops with the error carrying the observed and the expected count,
\* nothing is renamed, filled, cast or allocated, and no table or code exists.
C5_SchemaMismatchHalts ==
  (uploaded_file.ok /\ Len(uploaded_file.grid) # 28) =>
     /\ pc \in {"read", "validate", "stopped"}
     /\ pc = "stopped" => error = << "format", Len(uploaded_file.grid), 28 >>
     /\ pc # "stopped" => error = << >>
     /\ df_final = << >>
     /\ df_procesado = << >>
     /\ numerical_cols = {} /\ string_like_cols = {}
     /\ set_values = {} /\ valid_sets = {}
     /\ next_urbano = 0 /\ next_rural = 0
     /\ set_urbano = << >> /\ set_rural = << >>

C5_Witness ==
  /\ pc = "stopped"
  /\ uploaded_file.ok
  /\ Len(uploaded_file.grid) # 28
  /\ error = << "format", Len(uploaded_file.grid), 28 >>

\* The last row before r that is not absent in v, 0 when there is none.
LastSeen(v, r) ==
  IF \E q \in 1..(r - 1) : ~IsNull(v[q])
  THEN CHOOSE q \in 1..(r - 1) :
         ~IsNull(v[q]) /\ \A u \in (q + 1)..(r - 1) : IsNull(v[u])
  ELSE 0

\* C6: in each group column of the returned table an originally present
\* value is unchanged, an absent one after a present one holds the nearest
\* preceding originally present value, and an absent one before any present
\* value is still absent.
C6_GroupForwardFill ==
  Returned =>
     \A c \in {"Sucursal", "Area", "Distrito"} :
        \A r \in 1..Len(RawVals(c)) :
           IF ~IsNull(RawVals(c)[r])
           THEN OutVals(c)[r] = RawVals(c)[r]
           ELSE IF LastSeen(RawVals(c), r) = 0
                THEN IsNull(OutVals(c)[r])
                ELSE /\ ~IsNull(OutVals(c)[r])
                     /\ OutVals(c)[r] = RawVals(c)[LastSeen(RawVals(c), r)]

C6_Witness ==
  /\ Returned
  /\ Len(RawVals("Sucursal")) = 3
  /\ ~IsNull(RawVals("Sucursal")[1])
  /\ ~IsNull(RawVals("Sucursal")[2])
  /\ RawVals("Sucursal")[1] # RawVals("Sucursal")[2]
  /\ IsNull(RawVals("Sucursal")[3])
  /\ OutVals("Sucursal")[3] = RawVals("Sucursal")[2]
  /\ IsNull(RawVals("Area")[1])
  /\ IsNull(OutVals("Area")[1])

\* C7: every free-text column of the returned table is stored as text.
C7_FreeTextIsText ==
  Returned => \A c \in FreeTextCols : Column(df_procesado, c).dtype = "String"

\* C8: in every free-text column and in the identifier column, a cell absent
\* in the input grid is absent in the returned table.
C8_NoFillOfText ==
  Returned =>
     \A c \in FreeTextCols \cup {"# SET"} :
        \A r \in 1..Len(RawVals(c)) :
           IsNull(RawVals(c)[r]) => IsNull(OutVals(c)[r])

\* The non-group columns imported with an integer or floating-point type.
MeasurementCols ==
  {c \in {NUEVAS_CABECERAS[j] : j \in 1..Len(NUEVAS_CABECERAS)} :
     /\ c \notin {"Sucursal", "Area", "Distrito"}
     /\ RawDtype(c) \in {"Int8", "Int16", "Int32", "Int64", "Float32", "Float64"}}

\* C9: in every non-group column imported as integer or floating point, the
\* returned table has no absent cell: an originally absent cell is the
\* number 0 and an originally present cell keeps its value.
C9_MeasurementZeroFill ==
  Returned =>
     \A c \in MeasurementCols :
        \A r \in 1..Len(RawVals(c)) :
           /\ ~IsNull(OutVals(c)[r])
           /\ IF IsNull(RawVals(c)[r])
              THEN OutVals(c)[r].k \in {"int", "float"} /\ OutVals(c)[r].i = 0
              ELSE OutVals(c)[r] = RawVals(c)[r]

C9_Witness ==
  /\ Returned
  /\ "Antifraude" \in MeasurementCols
  /\ Len(RawVals("Antifraude")) >= 2
  /\ IsNull(RawVals("Antifraude")[1])
  /\ ~IsNull(RawVals("Antifraude")[2])
  /\ OutVals("Antifraude")[1] = FloatCell(0)
  /\ OutVals("Antifraude")[2] = RawVals("Antifraude")[2]

\* C10: the next Urban code has one of '0'..'4' at index 4 and the next Rural
\* code has '5' at index 4, for a maximum plus one and for a floor alike.
C10_DerivedInZone ==
  (pc = "done" /\ Returned) =>
     /\ set_urbano[5] \in {"0", "1", "2", "3", "4"}
     /\ set_rural[5] = "5"

====
